---- MODULE Spec2Model ----
(***************************************************************************)
(* A model of registry.GetRepository / registry.tagsToRepository and of    *)
(* the byCreatedDesc ordering (src/registry/registry.go).                  *)
(*                                                                         *)
(* One call of GetRepository runs against a remote whose answers are fixed *)
(* in the initial state: whether the factory yields a Remote, whether the  *)
(* tag list succeeds and how many tags it has, and, for each tag, the      *)
(* image or the error its manifest fetch yields.  The caller's goroutine   *)
(* and the goroutines it starts (one per tag) interleave freely.           *)
(***************************************************************************)
EXTENDS Integers, Sequences, FiniteSets

\* Largest number of tags the remote lists for the repository.
MaxTags == 3
\* Creation timestamps are 1..MaxTime; a larger number is a later time.
MaxTime == 2
\* Largest number of tags of the repositories of FairSpec.
MaxFairTags == 2
\* Largest number of GetImage calls made one after the other in SpecImage.
MaxCalls == 2
\* Longest image array of SpecLess.
MaxLessLen == 3
\* Longest image array handed to sort.Sort in SpecSort, and the latest
\* creation timestamp of its images.
MaxLen == 4
MaxSortTime == 3

VARIABLES
    factoryErr,    \* the error of factory.CreateFor (NoErr when it succeeds)
    remoteTags,    \* the answer of rem.Tags: [tags, err]; tags is the tag
                   \* list of the repository, also when err is an error
    manifests,     \* the answer of rem.Manifest for each entry of the tag list
    pc,            \* position of the goroutine that runs GetRepository
    tags,          \* local "tags" of GetRepository / tagsToRepository
    worker,        \* position of the goroutine started for each tag entry
    wres,          \* each goroutine's local (image, err)
    fetched,       \* the buffered channel "fetched" (capacity len(tags))
    i,             \* the loop index of the gather loop / dispatch loop
    images,        \* local "images" of tagsToRepository
    received,      \* history: the results the gather loop has received
    ret,           \* what GetRepository returned: [images, err]
    cancelled,     \* number of rem.Cancel calls
    tagCalls,      \* number of rem.Tags calls
    manifestCalls, \* number of rem.Manifest calls per tag entry
    logged,        \* number of Logger.Log calls per tag entry
    tag,           \* the argument "tag" of GetImage (0 in a GetRepository call)
    got,           \* history: what the GetImage calls so far have returned
    less           \* the results of byCreatedDesc.Less on the pairs of images

vars == <<factoryErr, remoteTags, manifests, pc, tags, worker, wres, fetched,
          i, images, received, ret, cancelled, tagCalls, manifestCalls, logged,
          tag, got, less>>

----------------------------------------------------------------------------
(* Values *)

\* A *time.Time that is nil.
NilTime == 0

Times == 1..MaxTime

\* The error value nil, and the three kinds of error of the remote.
NoErr == [kind |-> "nil", tag |-> 0]
FactoryError == [kind |-> "RemoteUnavailable", tag |-> 0]
TagListError == [kind |-> "TagListError", tag |-> 0]
ManifestError(t) == [kind |-> "ManifestFetchError", tag |-> t]

\* The zero value of Image.
ZeroImage == [name |-> <<>>, created |-> NilTime]

\* The name (Image.String()) of the image of the t-th tag of the repository.
TagName(t) == <<t>>

\* What rem.Manifest returns: an image and no error, or an error.
Fetched(img) == [image |-> img, err |-> NoErr]
Failed(e) == [image |-> ZeroImage, err |-> e]

\* The answers the remote can give for the t-th tag.
ManifestAnswers(t) ==
    {Failed(ManifestError(t))}
        \cup {Fetched([name |-> TagName(t), created |-> c]) : c \in {NilTime} \cup Times}

----------------------------------------------------------------------------
(* The ordering: byCreatedDesc and sort.Sort *)

\* Go's s < t on strings: bytewise lexicographic, a proper prefix is smaller.
\* A string is the sequence of its letters, "a" = <<1>>, "b" = <<2>>.
RECURSIVE StrLess(_, _)
StrLess(s, t) ==
    IF t = <<>> THEN FALSE
    ELSE IF s = <<>> THEN TRUE
    ELSE IF Head(s) # Head(t) THEN Head(s) < Head(t)
    ELSE StrLess(Tail(s), Tail(t))

\* Less with the comparison of the timestamps turned round (Before for
\* After): the earlier image first.
LessOldestFirst(is, a, b) ==
    IF is[a].created = NilTime THEN TRUE
    ELSE IF is[b].created = NilTime THEN FALSE
    ELSE IF is[a].created = is[b].created THEN StrLess(is[a].name, is[b].name)
    ELSE is[a].created < is[b].created

\* Less that takes two images without timestamp for equal.
LessNilEqual(is, a, b) ==
    IF is[a].created = NilTime THEN is[b].created # NilTime
    ELSE IF is[b].created = NilTime THEN FALSE
    ELSE IF is[a].created = is[b].created THEN StrLess(is[a].name, is[b].name)
    ELSE is[a].created > is[b].created

\* Less without the comparison of the names of lines 128-130.
LessNoTieBreak(is, a, b) ==
    IF is[a].created = NilTime THEN TRUE
    ELSE IF is[b].created = NilTime THEN FALSE
    ELSE is[a].created > is[b].created

\* byCreatedDesc.Less(i, j), indices counted from 1.
Less(is, a, b) ==
    IF is[a].created = NilTime THEN TRUE
    ELSE IF is[b].created = NilTime THEN FALSE
    ELSE IF is[a].created = is[b].created THEN StrLess(is[a].name, is[b].name)
    ELSE is[a].created > is[b].created

\* byCreatedDesc.Swap(i, j).
Swap(is, a, b) == [is EXCEPT ![a] = is[b], ![b] = is[a]]

\* The inner loop of sort's insertion sort:
\*   for j := i; j > a && data.Less(j, j-1); j-- { data.Swap(j, j-1) }
RECURSIVE InsertDown(_, _)
InsertDown(is, j) ==
    IF j > 1 /\ Less(is, j, j - 1)
    THEN InsertDown(Swap(is, j, j - 1), j - 1)
    ELSE is

\* The outer loop: for i := a + 1; i < b; i++ { ... }
RECURSIVE InsertionSort(_, _)
InsertionSort(is, k) ==
    IF k > Len(is) THEN is ELSE InsertionSort(InsertDown(is, k), k + 1)

\* sort.Sort(byCreatedDesc(images)).  For the lengths modelled here (at most
\* 6 elements) every release of package sort runs exactly this insertion
\* sort over Len/Less/Swap.
Sort(is) == InsertionSort(is, 2)

----------------------------------------------------------------------------
(* The call *)

\* The capacity of a channel made without buffer, make(chan result).
CapUnbuffered == Len(<<>>)

\* cap(fetched)
Cap == Len(tags)

\* Tag entries whose goroutine has been started.
Started == {t \in DOMAIN worker : worker[t] # "idle"}

\* The return value of GetRepository; "set" is FALSE until it returns.
NotReturned == [set |-> FALSE, images |-> <<>>, err |-> NoErr]
Return(imgs, e) == [set |-> TRUE, images |-> imgs, err |-> e]

\* The t-th tag of the repository is the tag t.
TagAnswers ==
    {[tags |-> [t \in 1..n |-> t], err |-> e] :
        n \in 0..MaxTags, e \in {NoErr, TagListError}}

AllManifestAnswers == UNION {ManifestAnswers(t) : t \in 1..MaxTags}

Init ==
    /\ factoryErr \in {NoErr, FactoryError}
    /\ remoteTags \in TagAnswers
    /\ manifests \in {m \in [DOMAIN remoteTags.tags -> AllManifestAnswers] :
                        \A t \in DOMAIN m : m[t] \in ManifestAnswers(t)}
    /\ pc = "newRemote"
    /\ tags = <<>>
    /\ worker = [t \in DOMAIN remoteTags.tags |-> "idle"]
    /\ wres = [t \in DOMAIN remoteTags.tags |-> Fetched(ZeroImage)]
    /\ fetched = <<>>
    /\ i = 0
    /\ images = <<>>
    /\ received = <<>>
    /\ ret = NotReturned
    /\ cancelled = 0
    /\ tagCalls = 0
    /\ manifestCalls = [t \in DOMAIN remoteTags.tags |-> 0]
    /\ logged = [t \in DOMAIN remoteTags.tags |-> 0]
    /\ tag = 0
    /\ got = <<>>
    /\ less = <<>>

\* NewRemoteFail that goes on to rem.Tags in spite of the error (the return
\* of line 46 missing).
NewRemoteFailIgnored ==
    /\ pc = "newRemote"
    /\ factoryErr # NoErr
    /\ pc' = "Tags"
    /\ UNCHANGED <<tag, got, less, factoryErr, remoteTags, manifests, tags,
                   worker, wres, fetched, i, images, received, ret, cancelled,
                   tagCalls, manifestCalls, logged>>

\* GetRepository, lines 44-47: the factory yields no Remote.
NewRemoteFail ==
    /\ pc = "newRemote"
    /\ factoryErr # NoErr
    /\ ret' = Return(<<>>, factoryErr)
    /\ pc' = "done"
    /\ UNCHANGED <<tag, got, less, factoryErr, remoteTags, manifests, tags, worker, wres,
                   fetched, i, images, received, cancelled, tagCalls, manifestCalls, logged>>

\* GetRepository, lines 44-47: the factory yields a Remote.
NewRemoteOk ==
    /\ pc = "newRemote"
    /\ factoryErr = NoErr
    /\ pc' = "Tags"
    /\ UNCHANGED <<tag, got, less, factoryErr, remoteTags, manifests, tags, worker, wres,
                   fetched, i, images, received, ret, cancelled, tagCalls, manifestCalls,
                   logged>>

\* TagsFail without the rem.Cancel() of line 51.
TagsFailNoCancel ==
    /\ pc = "Tags"
    /\ remoteTags.err # NoErr
    /\ tagCalls' = tagCalls + 1
    /\ ret' = Return(<<>>, remoteTags.err)
    /\ pc' = "done"
    /\ UNCHANGED <<tag, got, less, factoryErr, remoteTags, manifests, tags, worker, wres,
                   fetched, i, images, received, cancelled, manifestCalls,
                   logged>>

\* GetRepository, lines 49-53: rem.Tags fails; Cancel and return the error.
TagsFail ==
    /\ pc = "Tags"
    /\ remoteTags.err # NoErr
    /\ tagCalls' = tagCalls + 1
    /\ cancelled' = cancelled + 1
    /\ ret' = Return(<<>>, remoteTags.err)
    /\ pc' = "done"
    /\ UNCHANGED <<tag, got, less, factoryErr, remoteTags, manifests, tags, worker, wres,
                   fetched, i, images, received, manifestCalls, logged>>

\* TagsOk that takes the tag list whatever the error of rem.Tags (the check
\* of line 50 missing).
TagsOkUnchecked ==
    /\ pc = "Tags"
    /\ tagCalls' = tagCalls + 1
    /\ tags' = remoteTags.tags
    /\ fetched' = <<>>
    /\ pc' = "dispatch"
    /\ UNCHANGED <<tag, got, less, factoryErr, remoteTags, manifests, worker, wres, i, images,
                   received, ret, cancelled, manifestCalls, logged>>

\* GetRepository, lines 49-60, and tagsToRepository, line 90: rem.Tags
\* succeeds; tagsToRepository is entered and makes the channel.
TagsOk ==
    /\ pc = "Tags"
    /\ remoteTags.err = NoErr
    /\ tagCalls' = tagCalls + 1
    /\ tags' = remoteTags.tags
    /\ fetched' = <<>>
    /\ pc' = "dispatch"
    /\ UNCHANGED <<tag, got, less, factoryErr, remoteTags, manifests, worker, wres, i, images, received,
                   ret, cancelled, manifestCalls, logged>>

\* tagsToRepository, lines 92-100: one iteration of the range loop starts the
\* goroutine of the next tag.
Dispatch ==
    /\ pc = "dispatch"
    /\ Cardinality(Started) < Len(tags)
    /\ worker' = [worker EXCEPT ![Cardinality(Started) + 1] = "spawned"]
    /\ UNCHANGED <<tag, got, less, factoryErr, remoteTags, manifests, pc, tags, wres, fetched,
                   i, images, received, ret, cancelled, tagCalls, manifestCalls, logged>>

\* StartGather with remote.Cancel() called on the spot, not deferred.
StartGatherCancelNow ==
    /\ pc = "dispatch"
    /\ Cardinality(Started) = Len(tags)
    /\ images' = [k \in 1..Cap |-> ZeroImage]
    /\ i' = 0
    /\ cancelled' = cancelled + 1
    /\ pc' = "gather"
    /\ UNCHANGED <<tag, got, less, factoryErr, remoteTags, manifests, tags, worker, wres,
                   fetched, received, ret, tagCalls, manifestCalls, logged>>

\* tagsToRepository, lines 102-103: the range loop is over; make images and
\* enter the gather loop with i = 0 (images is indexed from 1 here, so i + 1
\* is the index the source calls i).
StartGather ==
    /\ pc = "dispatch"
    /\ Cardinality(Started) = Len(tags)
    /\ images' = [k \in 1..Cap |-> ZeroImage]
    /\ i' = 0
    /\ pc' = "gather"
    /\ UNCHANGED <<tag, got, less, received, factoryErr, remoteTags, manifests, tags, worker, wres,
                   fetched, ret, cancelled, tagCalls, manifestCalls, logged>>

\* GatherImage that stores every image in the first slot of images.
GatherImageFirstSlot ==
    /\ pc = "gather"
    /\ i < Cap
    /\ fetched # <<>>
    /\ Head(fetched).err = NoErr
    /\ fetched' = Tail(fetched)
    /\ images' = [images EXCEPT ![1] = Head(fetched).image]
    /\ i' = i + 1
    /\ received' = Append(received, Head(fetched))
    /\ UNCHANGED <<tag, got, less, factoryErr, remoteTags, manifests, pc, tags, worker, wres,
                   ret, cancelled, tagCalls, manifestCalls, logged>>

\* tagsToRepository, lines 103-108: receive a result without error.
GatherImage ==
    /\ pc = "gather"
    /\ i < Cap
    /\ fetched # <<>>
    /\ Head(fetched).err = NoErr
    /\ fetched' = Tail(fetched)
    /\ images' = [images EXCEPT ![i + 1] = Head(fetched).image]
    /\ i' = i + 1
    /\ received' = Append(received, Head(fetched))
    /\ UNCHANGED <<tag, got, less, factoryErr, remoteTags, manifests, pc, tags, worker, wres,
                   ret, cancelled, tagCalls, manifestCalls, logged>>

\* GatherError that returns the images gathered so far with the error.
GatherErrorPartial ==
    /\ pc = "gather"
    /\ i < Cap
    /\ fetched # <<>>
    /\ Head(fetched).err # NoErr
    /\ fetched' = Tail(fetched)
    /\ ret' = Return(SubSeq(images, 1, i), Head(fetched).err)
    /\ received' = Append(received, Head(fetched))
    /\ pc' = "defer"
    /\ UNCHANGED <<tag, got, less, factoryErr, remoteTags, manifests, tags, worker, wres, i,
                   images, cancelled, tagCalls, manifestCalls, logged>>

\* GatherError that returns an error of its own making in place of the one
\* it received.
GatherErrorWrapped ==
    /\ pc = "gather"
    /\ i < Cap
    /\ fetched # <<>>
    /\ Head(fetched).err # NoErr
    /\ fetched' = Tail(fetched)
    /\ ret' = Return(<<>>, ManifestError(0))
    /\ received' = Append(received, Head(fetched))
    /\ pc' = "defer"
    /\ UNCHANGED <<tag, got, less, factoryErr, remoteTags, manifests, tags, worker, wres, i,
                   images, cancelled, tagCalls, manifestCalls, logged>>

\* tagsToRepository, lines 103-107: receive a result with an error and
\* return it; the deferred Cancel is still to run.
GatherError ==
    /\ pc = "gather"
    /\ i < Cap
    /\ fetched # <<>>
    /\ Head(fetched).err # NoErr
    /\ fetched' = Tail(fetched)
    /\ ret' = Return(<<>>, Head(fetched).err)
    /\ received' = Append(received, Head(fetched))
    /\ pc' = "defer"
    /\ UNCHANGED <<tag, got, less, factoryErr, remoteTags, manifests, tags, worker, wres, i,
                   images, cancelled, tagCalls, manifestCalls, logged>>

\* SortAndReturn with the gather loop one iteration long (i <= cap).
SortAndReturnOneLong ==
    /\ pc = "gather"
    /\ i > Cap
    /\ images' = Sort(images)
    /\ ret' = Return(Sort(images), NoErr)
    /\ pc' = "defer"
    /\ UNCHANGED <<tag, got, less, factoryErr, remoteTags, manifests, tags,
                   worker, wres, fetched, i, received, cancelled, tagCalls,
                   manifestCalls, logged>>

\* SortAndReturn with the gather loop one iteration short (i < cap - 1).
SortAndReturnOneShort ==
    /\ pc = "gather"
    /\ i >= Cap - 1
    /\ images' = Sort(images)
    /\ ret' = Return(Sort(images), NoErr)
    /\ pc' = "defer"
    /\ UNCHANGED <<tag, got, less, factoryErr, remoteTags, manifests, tags, worker, wres,
                   fetched, i, received, cancelled, tagCalls, manifestCalls,
                   logged>>

\* tagsToRepository, lines 103 and 111-112: the gather loop is over; sort and
\* return the images; the deferred Cancel is still to run.
SortAndReturn ==
    /\ pc = "gather"
    /\ i >= Cap
    /\ images' = Sort(images)
    /\ ret' = Return(Sort(images), NoErr)
    /\ pc' = "defer"
    /\ UNCHANGED <<tag, got, less, received, factoryErr, remoteTags, manifests, tags, worker, wres,
                   fetched, i, cancelled, tagCalls, manifestCalls, logged>>

\* tagsToRepository, line 83: the deferred remote.Cancel(), then the return
\* to the caller of GetRepository.
DeferredCancel ==
    /\ pc = "defer"
    /\ cancelled' = cancelled + 1
    /\ pc' = "done"
    /\ UNCHANGED <<tag, got, less, factoryErr, remoteTags, manifests, tags, worker, wres,
                   fetched, i, images, received, ret, tagCalls, manifestCalls, logged>>

\* WorkerManifest that fetches a second time when the first fetch fails.
WorkerManifestRetry(t) ==
    /\ worker[t] = "spawned"
    /\ manifestCalls' = [manifestCalls EXCEPT
                            ![t] = IF manifests[t].err # NoErr THEN @ + 2 ELSE @ + 1]
    /\ wres' = [wres EXCEPT ![t] = manifests[t]]
    /\ worker' = [worker EXCEPT ![t] = "fetched"]
    /\ UNCHANGED <<tag, got, less, factoryErr, remoteTags, manifests, pc, tags, fetched, i,
                   images, received, ret, cancelled, tagCalls, logged>>

\* The goroutine of tag t, line 94: remote.Manifest(repository, t).  The
\* remote gives the answer fixed in manifests, whether or not Cancel has been
\* called by then.
WorkerManifest(t) ==
    /\ worker[t] = "spawned"
    /\ manifestCalls' = [manifestCalls EXCEPT ![t] = @ + 1]
    /\ wres' = [wres EXCEPT ![t] = manifests[t]]
    /\ worker' = [worker EXCEPT ![t] = "fetched"]
    /\ UNCHANGED <<tag, got, less, factoryErr, remoteTags, manifests, pc, tags, fetched, i,
                   images, received, ret, cancelled, tagCalls, logged>>

\* The goroutine of tag t, lines 95-97: log the error of the fetch.
WorkerLog(t) ==
    /\ worker[t] = "fetched"
    /\ wres[t].err # NoErr
    /\ logged' = [logged EXCEPT ![t] = @ + 1]
    /\ worker' = [worker EXCEPT ![t] = "logged"]
    /\ UNCHANGED <<tag, got, less, factoryErr, remoteTags, manifests, pc, tags, wres, fetched,
                   i, images, received, ret, cancelled, tagCalls, manifestCalls>>

\* WorkerSend that ends the goroutine of a failed fetch after the log,
\* without sending its result.
WorkerSendDropsFailed(t) ==
    /\ \/ worker[t] = "fetched" /\ wres[t].err = NoErr
       \/ worker[t] = "logged"
    /\ Len(fetched) < Cap
    /\ fetched' = IF wres[t].err = NoErr THEN Append(fetched, wres[t]) ELSE fetched
    /\ worker' = [worker EXCEPT ![t] = "sent"]
    /\ UNCHANGED <<tag, got, less, factoryErr, remoteTags, manifests, pc, tags,
                   wres, i, images, received, ret, cancelled, tagCalls,
                   manifestCalls, logged>>

\* WorkerSend that may send a failed result before it is logged.
WorkerSendUnlogged(t) ==
    /\ worker[t] \in {"fetched", "logged"}
    /\ Len(fetched) < Cap
    /\ fetched' = Append(fetched, wres[t])
    /\ worker' = [worker EXCEPT ![t] = "sent"]
    /\ UNCHANGED <<tag, got, less, factoryErr, remoteTags, manifests, pc, tags,
                   wres, i, images, received, ret, cancelled, tagCalls,
                   manifestCalls, logged>>

\* The goroutine of tag t, line 98: send the result; the send blocks while
\* the channel is full.
WorkerSend(t) ==
    /\ \/ worker[t] = "fetched" /\ wres[t].err = NoErr
       \/ worker[t] = "logged"
    /\ Len(fetched) < Cap
    /\ fetched' = Append(fetched, wres[t])
    /\ worker' = [worker EXCEPT ![t] = "sent"]
    /\ UNCHANGED <<tag, got, less, factoryErr, remoteTags, manifests, pc, tags, wres, i,
                   images, received, ret, cancelled, tagCalls, manifestCalls, logged>>

Caller ==
    \/ NewRemoteFail
    \/ NewRemoteOk
    \/ TagsFail
    \/ TagsOk
    \/ Dispatch
    \/ StartGather
    \/ GatherImage
    \/ GatherError
    \/ SortAndReturn
    \/ DeferredCancel

Worker(t) ==
    \/ WorkerManifest(t)
    \/ WorkerLog(t)
    \/ WorkerSend(t)

Next ==
    \/ Caller
    \/ \E t \in DOMAIN worker : Worker(t)

Spec == Init /\ [][Next]_vars

\* The calls on repositories of at most MaxFairTags tags.
InitFair == Init /\ Len(remoteTags.tags) <= MaxFairTags

\* The Go scheduler runs every runnable goroutine eventually.
FairSpec ==
    /\ InitFair
    /\ [][Next]_vars
    /\ WF_vars(Caller)
    /\ \A t \in 1..MaxTags : WF_vars(t \in DOMAIN worker /\ Worker(t))

----------------------------------------------------------------------------
(* sort.Sort(byCreatedDesc(images)) on its own: the call has gathered the    *)
(* images of all its tags, in any arrival order, and is about to sort them.  *)

\* "a" and "b".
SortNames == {<<1>>, <<2>>}

SortImages == [name : SortNames, created : {NilTime} \cup (1..MaxSortTime)]

InitSort ==
    \E n \in 0..MaxLen :
        \E imgs \in [1..n -> SortImages] :
            /\ factoryErr = NoErr
            /\ remoteTags = [tags |-> [t \in 1..n |-> t], err |-> NoErr]
            /\ manifests = [t \in 1..n |-> Fetched(imgs[t])]
            /\ pc = "gather"
            /\ tags = [t \in 1..n |-> t]
            /\ worker = [t \in 1..n |-> "sent"]
            /\ wres = [t \in 1..n |-> Fetched(imgs[t])]
            /\ fetched = <<>>
            /\ i = n
            /\ images = imgs
            /\ received = [t \in 1..n |-> Fetched(imgs[t])]
            /\ ret = NotReturned
            /\ cancelled = 0
            /\ tagCalls = 1
            /\ manifestCalls = [t \in 1..n |-> 1]
            /\ logged = [t \in 1..n |-> 0]
            /\ tag = 0
            /\ got = <<>>
            /\ less = <<>>

NextSort ==
    \/ SortAndReturn
    \/ DeferredCancel

SpecSort == InitSort /\ [][NextSort]_vars

----------------------------------------------------------------------------
(* byCreatedDesc.Less on its own: the call has gathered the images of all   *)
(* its tags; Less is applied to every pair of them, as sort.Sort may.       *)

\* "a", "ab" and "b".
LessNames == {<<1>>, <<1, 2>>, <<2>>}

LessImages == [name : LessNames, created : {NilTime} \cup (1..MaxSortTime)]

InitLess ==
    \E n \in 1..MaxLessLen :
        \E imgs \in [1..n -> LessImages] :
            /\ factoryErr = NoErr
            /\ remoteTags = [tags |-> [t \in 1..n |-> t], err |-> NoErr]
            /\ manifests = [t \in 1..n |-> Fetched(imgs[t])]
            /\ pc = "gather"
            /\ tags = [t \in 1..n |-> t]
            /\ worker = [t \in 1..n |-> "sent"]
            /\ wres = [t \in 1..n |-> Fetched(imgs[t])]
            /\ fetched = <<>>
            /\ i = n
            /\ images = imgs
            /\ received = [t \in 1..n |-> Fetched(imgs[t])]
            /\ ret = NotReturned
            /\ cancelled = 0
            /\ tagCalls = 1
            /\ manifestCalls = [t \in 1..n |-> 1]
            /\ logged = [t \in 1..n |-> 0]
            /\ tag = 0
            /\ got = <<>>
            /\ less = <<>>

\* byCreatedDesc(images).Less(a, b) for every a and b, on the images as
\* gathered: less[a][b] is its result.
CompareAll ==
    /\ pc = "gather"
    /\ less = <<>>
    /\ less' = [a \in DOMAIN images |-> [b \in DOMAIN images |-> Less(images, a, b)]]
    /\ UNCHANGED <<factoryErr, remoteTags, manifests, pc, tags, worker, wres,
                   fetched, i, images, received, ret, cancelled, tagCalls,
                   manifestCalls, logged, tag, got>>

NextLess ==
    \/ CompareAll
    \/ SortAndReturn
    \/ DeferredCancel

SpecLess == InitLess /\ [][NextLess]_vars

----------------------------------------------------------------------------
(* GetImage: calls for one tag of the repository, one after the other,     *)
(* against the same remote.                                                 *)

InitImage ==
    /\ factoryErr \in {NoErr, FactoryError}
    /\ remoteTags \in TagAnswers
    /\ manifests \in {m \in [DOMAIN remoteTags.tags -> AllManifestAnswers] :
                        \A t \in DOMAIN m : m[t] \in ManifestAnswers(t)}
    /\ tag \in DOMAIN remoteTags.tags
    /\ pc = "GetImage"
    /\ tags = <<>>
    /\ worker = [t \in DOMAIN remoteTags.tags |-> "idle"]
    /\ wres = [t \in DOMAIN remoteTags.tags |-> Fetched(ZeroImage)]
    /\ fetched = <<>>
    /\ i = 0
    /\ images = <<>>
    /\ received = <<>>
    /\ ret = NotReturned
    /\ cancelled = 0
    /\ tagCalls = 0
    /\ manifestCalls = [t \in DOMAIN remoteTags.tags |-> 0]
    /\ logged = [t \in DOMAIN remoteTags.tags |-> 0]
    /\ got = <<>>
    /\ less = <<>>

\* GetImage, lines 65-68: the factory yields no Remote; the zero Image and
\* the error are returned.
GetImageNewRemoteFail ==
    /\ pc = "GetImage"
    /\ factoryErr # NoErr
    /\ got' = Append(got, Failed(factoryErr))
    /\ pc' = "GetImage.done"
    /\ UNCHANGED <<less, factoryErr, remoteTags, manifests, tags, worker,
                   wres, fetched, i, images, received, ret, cancelled,
                   tagCalls, manifestCalls, logged, tag>>

\* GetImage, lines 65-68: the factory yields a Remote.
GetImageNewRemoteOk ==
    /\ pc = "GetImage"
    /\ factoryErr = NoErr
    /\ pc' = "GetImage.Manifest"
    /\ UNCHANGED <<less, factoryErr, remoteTags, manifests, tags, worker,
                   wres, fetched, i, images, received, ret, cancelled,
                   tagCalls, manifestCalls, logged, tag, got>>

\* GetImageManifest that releases the Remote once the manifest is fetched.
GetImageManifestReleasing ==
    /\ pc = "GetImage.Manifest"
    /\ manifestCalls' = [manifestCalls EXCEPT ![tag] = @ + 1]
    /\ cancelled' = cancelled + 1
    /\ got' = Append(got, manifests[tag])
    /\ pc' = "GetImage.done"
    /\ UNCHANGED <<less, factoryErr, remoteTags, manifests, tags, worker,
                   wres, fetched, i, images, received, ret, tagCalls,
                   logged, tag>>

\* GetImageManifest that answers from the remote on the first call only and
\* fails on the later ones.
GetImageManifestFirstOnly ==
    /\ pc = "GetImage.Manifest"
    /\ manifestCalls' = [manifestCalls EXCEPT ![tag] = @ + 1]
    /\ got' = Append(got, IF manifestCalls[tag] = 0
                          THEN manifests[tag]
                          ELSE Failed(ManifestError(tag)))
    /\ pc' = "GetImage.done"
    /\ UNCHANGED <<less, factoryErr, remoteTags, manifests, tags, worker,
                   wres, fetched, i, images, received, ret, cancelled,
                   tagCalls, logged, tag>>

\* GetImage, line 69: return rem.Manifest(img, tag).
GetImageManifest ==
    /\ pc = "GetImage.Manifest"
    /\ manifestCalls' = [manifestCalls EXCEPT ![tag] = @ + 1]
    /\ got' = Append(got, manifests[tag])
    /\ pc' = "GetImage.done"
    /\ UNCHANGED <<less, factoryErr, remoteTags, manifests, tags, worker,
                   wres, fetched, i, images, received, ret, cancelled,
                   tagCalls, logged, tag>>

\* The caller calls GetImage again, for the same repository and tag.
GetImageAgain ==
    /\ pc = "GetImage.done"
    /\ Len(got) < MaxCalls
    /\ pc' = "GetImage"
    /\ UNCHANGED <<less, factoryErr, remoteTags, manifests, tags, worker,
                   wres, fetched, i, images, received, ret, cancelled,
                   tagCalls, manifestCalls, logged, tag, got>>

NextImage ==
    \/ GetImageNewRemoteFail
    \/ GetImageNewRemoteOk
    \/ GetImageManifest
    \/ GetImageAgain

SpecImage == InitImage /\ [][NextImage]_vars

\* Either operation of the Registry, on any remote.
InitAll == Init \/ InitImage

NextAll == Next \/ NextImage

SpecAll == InitAll /\ [][NextAll]_vars

----------------------------------------------------------------------------
(* Properties *)

\* Number of tags of the repository.
N == Len(remoteTags.tags)

TagIds == DOMAIN remoteTags.tags

\* The factory yielded a Remote and the tag list succeeded: tagsToRepository
\* runs.
Listing == factoryErr = NoErr /\ remoteTags.err = NoErr

FailingTags == {t \in TagIds : manifests[t].err # NoErr}

\* The manifest fetch of tag t has been dispatched and has not completed.
Outstanding(t) == worker[t] = "spawned"

\* The manifest fetch of tag t has completed.
Completed(t) == worker[t] \in {"fetched", "logged", "sent"}

\* GetRepository has returned to its caller.
Returned == pc = "done"

C3_AllImagesReturned ==
    (Listing /\ FailingTags = {} /\ Returned)
        => /\ ret.err = NoErr
           /\ Len(ret.images) = N
           /\ \A t \in TagIds :
                 Cardinality({p \in DOMAIN ret.images :
                                 ret.images[p] = manifests[t].image}) = 1
           /\ \A t \in TagIds : manifestCalls[t] = 1

\* listImages has returned the images of a repository with MaxTags tags, the
\* fetch of the last tag being the first to deliver.
C3_Witness ==
    /\ Listing
    /\ FailingTags = {}
    /\ Returned
    /\ N = MaxTags
    /\ received[1] = manifests[N]
    /\ Len(ret.images) = N

\* C4: when the factory produced a Remote, the Remote has been released
\* exactly once when listImages returns, and is never released twice.
C4_ReleasedExactlyOnce ==
    /\ cancelled <= 1
    /\ factoryErr # NoErr => cancelled = 0
    /\ (factoryErr = NoErr /\ Returned) => cancelled = 1

\* listImages has returned the error of a failed manifest fetch and has
\* released the Remote once, with fetches still outstanding.
C4_Witness ==
    /\ Listing
    /\ Returned
    /\ ret.err \in {manifests[t].err : t \in FailingTags}
    /\ cancelled = 1
    /\ \E t \in TagIds : Outstanding(t)

\* C5: when the tag-list call fails, listImages returns that error and no
\* images, starts no goroutine and fetches no manifest, and has released the
\* Remote when it returns.
C5_TagListError ==
    (factoryErr = NoErr /\ remoteTags.err # NoErr)
        => /\ \A t \in TagIds : worker[t] = "idle" /\ manifestCalls[t] = 0
           /\ tagCalls <= 1
           /\ Returned =>
                 /\ ret = Return(<<>>, remoteTags.err)
                 /\ tagCalls = 1
                 /\ cancelled = 1

\* The tag list of a repository with tags has failed and listImages has
\* returned.
C5_Witness ==
    /\ factoryErr = NoErr
    /\ remoteTags.err # NoErr
    /\ N >= 2
    /\ Returned
    /\ cancelled = 1

\* C6: listImages never returns a partial success: it returns either no
\* error and the image of every tag, or an error and no images; the images
\* received before a failed result are not returned.
C6_NoPartialSuccess ==
    ret.set =>
        IF ret.err = NoErr
        THEN /\ Listing
             /\ FailingTags = {}
             /\ Len(ret.images) = N
             /\ \A t \in TagIds :
                   \E p \in DOMAIN ret.images : ret.images[p] = manifests[t].image
        ELSE ret.images = <<>>

\* listImages has returned an error after the gather loop had received the
\* image of another tag.
C6_Witness ==
    /\ Listing
    /\ Returned
    /\ ret.err # NoErr
    /\ ret.images = <<>>
    /\ \E k \in DOMAIN received : received[k].err = NoErr

\* C7: when manifest fetches fail, listImages returns, unchanged, the error
\* of the first failed result the gather loop received, whichever tag it
\* belongs to; it stays the returned error from then on.
C7_FirstErrorReceived ==
    (Listing /\ ret.set /\ ret.err # NoErr)
        => \E k \in DOMAIN received :
              /\ received[k].err = ret.err
              /\ \A j \in 1..(k - 1) : received[j].err = NoErr
              /\ \E f \in FailingTags : received[k] = manifests[f]

\* The fetches of the first and of another tag fail, and listImages has
\* returned the error of the other tag.
C7_Witness ==
    /\ Listing
    /\ Returned
    /\ 1 \in FailingTags
    /\ ret.err # NoErr
    /\ ret.err # manifests[1].err
    /\ worker[1] = "sent"

\* No manifest is fetched for a tag the goroutine of which was not started,
\* none is fetched twice, and there is at most one tag-list call.
C8_Safe ==
    /\ tagCalls <= 1
    /\ pc \notin {"newRemote", "Tags"} /\ factoryErr = NoErr => tagCalls = 1
    /\ \A t \in TagIds : manifestCalls[t] <= 1
    /\ \A t \in TagIds : manifestCalls[t] = 1 => t \in DOMAIN tags
    /\ \A t \in TagIds : manifestCalls[t] = 1 <=> Completed(t)

\* Every tag of the tag list has had its manifest fetched, once.
C8_AllFetched ==
    Listing => tagCalls = 1 /\ \A t \in TagIds : manifestCalls[t] = 1

\* C8: a listImages call whose tag list succeeds makes one tag-list call and
\* fetches the manifest of each entry of the tag list at most once, and,
\* under fair scheduling, exactly once, also when some fetch fails.
C8_OneFetchPerTag == [](C8_Safe) /\ <>[](C8_AllFetched)

\* A fetch has failed, listImages has returned its error, and the manifest
\* of every tag has been fetched once.
C8_Witness ==
    /\ Listing
    /\ N >= 2
    /\ Returned
    /\ ret.err # NoErr
    /\ Len(received) = 1
    /\ \A t \in TagIds : manifestCalls[t] = 1

\* The images of the tags, in the order of the tag list.
ImagesInTagOrder == [t \in TagIds |-> manifests[t].image]

\* C9: when every manifest fetch succeeds, the sequence listImages returns
\* is the same whatever the order in which the fetches complete: it is the
\* sequence returned when they complete in the order of the tag list, the
\* images of the tags sorted by the ordering policy.
C9_OrderIndependent ==
    (Listing /\ FailingTags = {} /\ ret.set)
        => ret.images = Sort(ImagesInTagOrder)

\* Number of occurrences of x in the sequence is.
Count(is, x) == Cardinality({p \in DOMAIN is : is[p] = x})

\* C10: the sorted result holds the images it was given, those without
\* creation timestamp before every image with one, those with timestamps
\* from the latest to the earliest, and those with equal timestamps from the
\* smallest full name to the largest.
C10_OrderingPolicy ==
    (ret.set /\ ret.err = NoErr) =>
        /\ Len(ret.images) = N
        /\ \A t \in TagIds :
              Count(ret.images, manifests[t].image)
                  = Count(ImagesInTagOrder, manifests[t].image)
        /\ \A p, q \in DOMAIN ret.images :
              LET A == ret.images[p]
                  B == ret.images[q]
              IN  p < q =>
                    /\ B.created = NilTime => A.created = NilTime
                    /\ A.created # NilTime /\ B.created # NilTime
                          => A.created >= B.created
                    /\ A.created # NilTime /\ A.created = B.created
                          => ~StrLess(B.name, A.name)

\* Images with timestamps 1 < 3 > 2 and one without, given as
\* [1, 3, none, 2], have been sorted to [none, 3, 2, 1].
C10_Witness ==
    /\ ret.set
    /\ ret.err = NoErr
    /\ [t \in TagIds |-> manifests[t].image.created] = <<1, 3, NilTime, 2>>
    /\ [p \in DOMAIN ret.images |-> ret.images[p].created] = <<NilTime, 3, 2, 1>>

\* C11: when the factory yields no Remote, listImages and getImage return
\* the error of the factory, unchanged, with no images, and no tag-list call,
\* no manifest fetch and no release is made.
C11_RemoteUnavailable ==
    factoryErr # NoErr =>
        /\ tagCalls = 0
        /\ cancelled = 0
        /\ \A t \in TagIds : manifestCalls[t] = 0 /\ worker[t] = "idle"
        /\ pc = "done" => ret = Return(<<>>, factoryErr)
        /\ pc = "GetImage.done" => Len(got) >= 1
        /\ \A k \in DOMAIN got : got[k] = [image |-> ZeroImage, err |-> factoryErr]

\* getImage has returned the error of the factory for a tag of a repository
\* with tags.
C11_Witness ==
    /\ factoryErr # NoErr
    /\ pc = "GetImage.done"
    /\ Len(got) = 1
    /\ got[1].err = FactoryError
    /\ N >= 2

\* C12: getImage with a Remote makes one manifest fetch, for its tag, and no
\* other call, starts no goroutine, returns what the fetch yields, unchanged,
\* and does not release the Remote.
C12_SingleFetchNoRelease ==
    pc \in {"GetImage", "GetImage.Manifest", "GetImage.done"} =>
        /\ tagCalls = 0
        /\ cancelled = 0
        /\ \A t \in TagIds : worker[t] = "idle"
        /\ \A t \in TagIds \ {tag} : manifestCalls[t] = 0
        /\ factoryErr = NoErr =>
              /\ manifestCalls[tag] = Len(got)
              /\ \A k \in DOMAIN got : got[k] = manifests[tag]
              /\ pc = "GetImage.done" => Len(got) >= 1

\* getImage has returned the error of its manifest fetch and its Remote has
\* not been released.
C12_Witness ==
    /\ factoryErr = NoErr
    /\ pc = "GetImage.done"
    /\ Len(got) = 1
    /\ got[1].err = ManifestError(tag)
    /\ manifestCalls[tag] = 1
    /\ cancelled = 0

C14_FailuresLogged ==
    Listing =>
        /\ \A t \in TagIds :
              /\ logged[t] <= 1
              /\ logged[t] = 1 <=>
                    (worker[t] \in {"logged", "sent"} /\ wres[t].err # NoErr)
              /\ Completed(t) /\ wres[t].err = NoErr => logged[t] = 0
        /\ \A k \in DOMAIN fetched :
              fetched[k].err # NoErr => logged[fetched[k].err.tag] = 1
        /\ \A k \in DOMAIN received :
              received[k].err # NoErr => logged[received[k].err.tag] = 1
        /\ ret.set /\ ret.err # NoErr => logged[ret.err.tag] = 1

\* listImages has returned the error of one fetch; the result of another
\* failed fetch is in the queue, logged and not received.
C14_Witness ==
    /\ Listing
    /\ Returned
    /\ ret.err # NoErr
    /\ \E k \in DOMAIN fetched :
          /\ fetched[k].err # NoErr
          /\ fetched[k].err # ret.err
          /\ logged[fetched[k].err.tag] = 1
    /\ \E t \in TagIds : Completed(t) /\ wres[t].err = NoErr /\ logged[t] = 0

\* The images Less was applied to, by their place in the array.
Compared(a) == manifests[a].image

\* C15: Less(A, B) and Less(B, A) are both true exactly when neither A nor B
\* has a creation timestamp; so Less(A, A) is true exactly for the images
\* without timestamp, and Less is not a strict order on them.
C15_NotStrictOnNil ==
    less # <<>> =>
        \A a, b \in DOMAIN less :
            (less[a][b] /\ less[b][a])
                <=> (Compared(a).created = NilTime /\ Compared(b).created = NilTime)

\* Less has been applied to two images without timestamp, of different
\* names, and is true both ways and of each with itself.
C15_Witness ==
    /\ less # <<>>
    /\ \E a, b \in DOMAIN less :
          /\ Compared(a).created = NilTime
          /\ Compared(b).created = NilTime
          /\ Compared(a).name # Compared(b).name
          /\ less[a][b]
          /\ less[b][a]
          /\ less[a][a]

\* The results that have been sent: those received, then those in the queue.
Sent == received \o fetched

\* The goroutine of tag t is at its send.
AtSend(t) ==
    \/ worker[t] = "fetched" /\ wres[t].err = NoErr
    \/ worker[t] = "logged"

\* The queue has the capacity N and never holds more; each goroutine puts
\* its result into it once, at its send, which never finds the queue full;
\* results received + results in the queue + goroutines that have not sent
\* = N.
C16_Safe ==
    (Listing /\ pc \notin {"newRemote", "Tags"}) =>
        /\ Cap = N
        /\ Len(fetched) <= Cap
        /\ \A t \in TagIds :
              Count(Sent, wres[t]) = IF worker[t] = "sent" THEN 1 ELSE 0
        /\ \A t \in TagIds : AtSend(t) => ENABLED WorkerSend(t)
        /\ Len(received) + Len(fetched)
              + Cardinality({t \in TagIds : worker[t] # "sent"}) = N

\* The fetch of the goroutine of tag t has returned.
FetchReturned(t) == IF t \in TagIds THEN Completed(t) ELSE FALSE

\* The goroutine of tag t has sent its result and ended.
HasSent(t) == IF t \in TagIds THEN worker[t] = "sent" ELSE FALSE

\* C16: each goroutine of listImages puts exactly one result into the queue
\* of capacity N, its send never blocks, and, under fair scheduling, every
\* goroutine whose fetch has returned ends, also when the gather loop has
\* stopped receiving.
C16_OneResultPerWorker ==
    /\ [](C16_Safe)
    /\ \A t \in 1..MaxFairTags : FetchReturned(t) ~> HasSent(t)

\* listImages has returned the error of the first result it received, and
\* the other goroutines have sent their results since.
C16_Witness ==
    /\ Listing
    /\ N >= 2
    /\ Returned
    /\ Len(received) = 1
    /\ received[1].err # NoErr
    /\ Len(fetched) = N - 1
    /\ \A t \in TagIds : worker[t] = "sent"

\* C17: under fair scheduling every listImages call returns to its caller,
\* with images or with an error, and the Remote it acquired, if any, has
\* been released by then; it does not stay in the gather loop.
C17_Returns ==
    <>[](/\ Returned
         /\ ret.set
         /\ factoryErr = NoErr => cancelled = 1)

\* listImages has gathered the images of two or more tags, has returned
\* them and has released the Remote.
C17_Witness ==
    /\ Listing
    /\ N >= 2
    /\ Returned
    /\ ret.err = NoErr
    /\ Len(ret.images) = N
    /\ cancelled = 1

\* C18: when the tag list is empty, listImages starts no goroutine and
\* fetches no manifest, its gather loop ends at once without a receive, and
\* it returns an empty sequence of images and no error, the Remote released
\* once.
C18_EmptyTagList ==
    (Listing /\ N = 0) =>
        /\ Started = {}
        /\ manifestCalls = <<>>
        /\ fetched = <<>>
        /\ received = <<>>
        /\ cancelled <= 1
        /\ pc = "dispatch" => ~ENABLED Dispatch /\ ENABLED StartGather
        /\ pc = "gather" =>
              ENABLED SortAndReturn /\ ~ENABLED GatherImage /\ ~ENABLED GatherError
        /\ Returned => ret = Return(<<>>, NoErr) /\ cancelled = 1 /\ tagCalls = 1

\* listImages has returned for a repository without tags.
C18_Witness ==
    /\ Listing
    /\ N = 0
    /\ Returned
    /\ ret = Return(<<>>, NoErr)
    /\ cancelled = 1

\* The images all have a creation timestamp, and names different from one
\* another.
TimestampedDistinct ==
    \A a, b \in TagIds :
        /\ Compared(a).created # NilTime
        /\ a # b => Compared(a).name # Compared(b).name

\* C19: on images that all have a creation timestamp and different names,
\* Less is irreflexive, asymmetric and transitive, and of two different
\* images exactly one is Less than the other; the sorted result is then the
\* one arrangement in which every image is Less than all that follow it.
C19_StrictTotalOrder ==
    TimestampedDistinct =>
        /\ less # <<>> =>
              /\ \A a \in DOMAIN less : ~less[a][a]
              /\ \A a, b \in DOMAIN less : ~(less[a][b] /\ less[b][a])
              /\ \A a, b, c \in DOMAIN less :
                    less[a][b] /\ less[b][c] => less[a][c]
              /\ \A a, b \in DOMAIN less : a # b => (less[a][b] \/ less[b][a])
        /\ ret.set =>
              \A p, q \in DOMAIN ret.images :
                  p < q => Less(ret.images, p, q) /\ ~Less(ret.images, q, p)

\* Less has been applied to three images with timestamps and different
\* names, two of them of the same timestamp and out of order, and the images
\* have been sorted.
C19_Witness ==
    /\ TimestampedDistinct
    /\ N = 3
    /\ less # <<>>
    /\ ret.set
    /\ Compared(1).created = Compared(2).created
    /\ less[2][1]
    /\ ret.images # ImagesInTagOrder

====
